---- MODULE Spec2Model ----
(***************************************************************************)
(* Model of class stringvec (src/stringvec.h): a vector of strings with    *)
(* file input/output, filtering, transformation and search.                *)
(*                                                                         *)
(* A std::string is a sequence of character codes (ASCII), the vector is a *)
(* sequence of strings.  Positions and indices are 0-based as in the C++   *)
(* code; an iterator is modelled by its distance from begin(), so end() is *)
(* Len(vec).                                                               *)
(*                                                                         *)
(* Three specifications share the variables:                               *)
(*   Spec       the member functions that work on the vector in memory     *)
(*   SpecSplit  split and print, on longer strings                         *)
(*   SpecFile   write_file, read_file and print, with a file system        *)
(***************************************************************************)
EXTENDS Integers, Sequences, FiniteSets

VARIABLES
    vec,      \* stringvec::vec, the std::vector<std::string>
    file,     \* the file at the path given to read_file / write_file:
              \* <<>> when it does not exist, <<content>> when it does
    fileFrom, \* history: <<v>> when the file was written by write_file
              \* from the vector v with the default separator, else <<>>
    os,       \* the stream of the last call if that was print:
              \* <<[sep, keep_last_sep, text]>>, else <<>>
    op,       \* name of the last member function called, print excepted
              \* ("init" after construction)
    arg,      \* the arguments of that call
    old,      \* the value of vec when that call started
    ret,      \* what that call returned
    outcome   \* how that call ended: "ok", the exception thrown, or an
              \* outcome of undefined behaviour ("crash", "corrupt", "garbage")

vars == <<vec, file, fileFrom, os, op, arg, old, ret, outcome>>

----------------------------------------------------------------------------
(* Bounds of the explored inputs *)

MaxLen == 3         \* most elements in a constructed vector
MaxChars == 3       \* most characters, in total, in a constructed vector
MaxStrLen == 4      \* longest string of a one-element vector (SpecSplit)
MaxDelimLen == 2    \* longest delimiter / separator
MaxEmplaced == 8     \* strings of newStrings the model keeps during a split

(* Character codes *)
CharA == 97
CharSpace == 32
CharNewline == 10
CharNul == 0

\* the characters of the strings in memory, and of those written to files
TextChars == {CharA, CharSpace}
FileChars == {CharA, CharSpace, CharNewline}

\* constexpr std::string_view whitespace = " \t\v\r\n";
Whitespace == {32, 9, 11, 13, 10}

\* the class \s of an ECMAScript std::regex over char: isspace()
RegexSpace == {32, 9, 10, 11, 12, 13}

\* '.' of an ECMAScript std::regex: any character but a line terminator
RegexDot == FileChars \ {10, 13}

\* std::string::npos; never a valid position
Npos == -1

----------------------------------------------------------------------------
(* Helpers on sequences, and the sets the inputs are drawn from *)

Min(a, b) == IF a < b THEN a ELSE b

Last(s) == s[Len(s)]

Front(s) == SubSeq(s, 1, Len(s) - 1)

\* s without its element at 0-based position i
RemoveAt(s, i) == SubSeq(s, 1, i) \o SubSeq(s, i + 2, Len(s))

RECURSIVE Reverse(_)
Reverse(s) == IF s = <<>> THEN <<>> ELSE Append(Reverse(Tail(s)), Head(s))

\* std::string::substr(pos, n) and the constructor string(s, pos, n)
SubStr(s, pos, n) == SubSeq(s, pos + 1, Min(pos + n, Len(s)))

\* the constructor string(s, pos): s from position pos on
SubStrFrom(s, pos) == SubSeq(s, pos + 1, Len(s))

RECURSIVE StringsUpTo(_, _)
StringsUpTo(chars, n) ==
    IF n <= 0 THEN {<<>>}
    ELSE LET shorter == StringsUpTo(chars, n - 1)
         IN  shorter \cup {Append(s, c) : s \in {t \in shorter : Len(t) = n - 1}, c \in chars}

RECURSIVE TotalChars(_)
TotalChars(v) == IF v = <<>> THEN 0 ELSE Len(Head(v)) + TotalChars(Tail(v))

RECURSIVE VecsOfLen(_, _, _)
\* the vectors of exactly n strings with at most c characters in total
VecsOfLen(chars, n, c) ==
    IF n = 0 THEN {<<>>}
    ELSE UNION {{<<s>> \o v : v \in VecsOfLen(chars, n - 1, c - Len(s))} :
                s \in StringsUpTo(chars, c)}

\* the vectors a constructor is given
VecsOver(chars) == UNION {VecsOfLen(chars, n, MaxChars) : n \in 0..MaxLen}

\* the vectors within the bounds of the constructed ones
InBounds(v) == Len(v) <= MaxLen /\ TotalChars(v) <= MaxChars

Delims == StringsUpTo(TextChars, MaxDelimLen) \ {<<>>}

----------------------------------------------------------------------------
(* print *)

RECURSIVE print_loop_every_sep(_, _, _, _)
\* print with the test for the last element left out: sep after every one
print_loop_every_sep(v, i, sep, keep_last_sep) ==
    IF ~(i < Len(v)) THEN <<>>
    ELSE v[i + 1] \o sep \o print_loop_every_sep(v, i + 1, sep, keep_last_sep)

RECURSIVE print_loop(_, _, _, _)
\* the loop of print from iterator position i on: every element, followed
\* by sep unless it is the last one and keep_last_sep is false
print_loop(v, i, sep, keep_last_sep) ==
    IF ~(i < Len(v)) THEN <<>>
    ELSE v[i + 1]
         \o (IF (i # Len(v) - 1) \/ keep_last_sep = TRUE THEN sep ELSE <<>>)
         \o print_loop(v, i + 1, sep, keep_last_sep)

\* what print(os, sep, keep_last_sep) writes to os
print_text(v, sep, keep_last_sep) == print_loop(v, 0, sep, keep_last_sep)

----------------------------------------------------------------------------
(* Regular expressions *)

(* A regular expression is modelled by what std::regex compiles it to: a   *)
(* sequence of atoms, each a character class with a repetition, or         *)
(* nothing when the constructor of std::regex throws std::regex_error.     *)
Atom(cls, rep) == [cls |-> cls, rep |-> rep]

RegexLiteral(s) == [valid |-> TRUE, atoms |-> [i \in 1..Len(s) |-> Atom({s[i]}, "one")]]

\* "^\\s+$"
RegexBlank == [valid |-> TRUE, atoms |-> <<Atom(RegexSpace, "plus")>>]

\* ".*a.*", as in ".*[Aa]pple.*"
RegexContainsA ==
    [valid |-> TRUE,
     atoms |-> <<Atom(RegexDot, "star"), Atom({CharA}, "one"), Atom(RegexDot, "star")>>]

\* ".*a", as in ".*berry"
RegexEndsA == [valid |-> TRUE, atoms |-> <<Atom(RegexDot, "star"), Atom({CharA}, "one")>>]

\* "(", which is no regular expression
RegexMalformed == [valid |-> FALSE, atoms |-> <<>>]

Regexes == {RegexLiteral(<<CharA>>), RegexLiteral(<<CharA, CharSpace>>),
            RegexBlank, RegexContainsA, RegexEndsA, RegexMalformed}

\* the positions where atom a can stop when it starts at position p of s
AtomEnds(s, a, p) ==
    {q \in p..Len(s) :
        /\ \A i \in (p + 1)..q : s[i] \in a.cls
        /\ CASE a.rep = "one" -> q = p + 1
             [] a.rep = "star" -> TRUE
             [] a.rep = "plus" -> q > p}

RECURSIVE MatchEnds(_, _, _, _)
\* the positions where the first k atoms can stop when they start at p
MatchEnds(s, atoms, k, p) ==
    IF k = 0 THEN {p}
    ELSE UNION {AtomEnds(s, atoms[k], q) : q \in MatchEnds(s, atoms, k - 1, p)}

\* std::regex_search(s, reg) in the place of std::regex_match: some part
\* of s matches
regex_search(s, reg) ==
    \E p \in 0..Len(s) : MatchEnds(s, reg.atoms, Len(reg.atoms), p) # {}

\* std::regex_match(s, reg): the whole of s matches
regex_match(s, reg) == Len(s) \in MatchEnds(s, reg.atoms, Len(reg.atoms), 0)

----------------------------------------------------------------------------
(* filter_remove, filter_keep, filter_empty *)

(* A std::function<bool(const std::string)> is modelled by a record that   *)
(* names the function object; Call applies it.                             *)

\* [](const std::string& s) { return s.empty(); }
FuncEmpty == [kind |-> "empty"]

\* a function object of the caller: the strings that hold a space
FuncWithSpace == [kind |-> "with_space"]

\* [&reg](const std::string& s) { return std::regex_match(s, reg); }
FuncRegex(reg) == [kind |-> "regex_match", reg |-> reg]

\* [s](const std::string_view x) { return x == s; }
FuncEquals(str) == [kind |-> "equals", s |-> str]

\* [func](const std::string& s) { return !func(s); }
FuncNot(func) == [kind |-> "not", func |-> func]

RECURSIVE Call(_, _)
Call(func, s) ==
    CASE func.kind = "empty" -> s = <<>>
      [] func.kind = "with_space" -> \E i \in 1..Len(s) : s[i] = CharSpace
      [] func.kind = "regex_match" -> regex_match(s, func.reg)
      [] func.kind = "equals" -> s = func.s
      [] func.kind = "not" -> ~Call(func.func, s)

\* the function objects callers hand to the overloads taking one
Funcs == {FuncEmpty, FuncWithSpace}

\* vec.erase(std::remove_if(vec.begin(), vec.end(), func), vec.end()):
\* what is left is the elements func rejects, in their order
remove_if_erase(v, func) == SelectSeq(v, LAMBDA s : ~Call(func, s))

\* filter_remove(func)
filter_remove_vec(v, func) == remove_if_erase(v, func)

\* filter_keep(func): removes the elements func rejects
filter_keep_vec(v, func) == remove_if_erase(v, FuncNot(func))

\* filter_empty(keep_whitespace)
filter_empty_vec(v, keep_whitespace) ==
    IF keep_whitespace
    THEN filter_remove_vec(v, FuncEmpty)
    ELSE filter_remove_vec(v, FuncRegex(RegexBlank))

----------------------------------------------------------------------------
(* transform, trim *)

\* std::string::find_first_not_of(chars)
find_first_not_of(s, chars) ==
    LET hits == {i \in 1..Len(s) : s[i] \notin chars}
    IN  IF hits = {} THEN Npos ELSE (CHOOSE i \in hits : \A j \in hits : i <= j) - 1

\* std::string::find_last_not_of(chars)
find_last_not_of(s, chars) ==
    LET hits == {i \in 1..Len(s) : s[i] \notin chars}
    IN  IF hits = {} THEN Npos ELSE (CHOOSE i \in hits : \A j \in hits : i >= j) - 1

\* a trim that takes one whitespace character, if there is one, from each
\* end of the string
trim_string_one_each(s) ==
    LET start == IF s # <<>> /\ s[1] \in Whitespace THEN 1 ELSE 0
        rest == SubStrFrom(s, start)
    IN  IF rest # <<>> /\ rest[Len(rest)] \in Whitespace
        THEN SubStr(rest, 0, Len(rest) - 1)
        ELSE rest

\* the lambda trim hands to transform
trim_string(s) ==
    LET start == find_first_not_of(s, Whitespace)
        end == find_last_not_of(s, Whitespace)
    IN  IF start = end THEN <<>> ELSE SubStr(s, start, end - start + 1)

\* transform(func): std::for_each(begin(), end(), [func](std::string& s)
\* { s = func(s); }), for the function object of trim
transform_trim(v) == [i \in 1..Len(v) |-> trim_string(v[i])]

(* A std::function<std::string(const std::string)> of the caller's is a   *)
(* record, as the predicates are; Apply is its call.                      *)

\* [](const std::string) { return "a"; }
FuncConstA == [kind |-> "const_a"]

\* [](const std::string s) { return " " + s; }
FuncPrependSpace == [kind |-> "prepend_space"]

\* func(s), for the func of transform
Apply(func, s) ==
    CASE func.kind = "const_a" -> <<CharA>>
      [] func.kind = "prepend_space" -> <<CharSpace>> \o s

Transforms == {FuncConstA, FuncPrependSpace}

\* transform(func): std::for_each(begin(), end(), [func](std::string& s)
\* { s = func(s); })
transform_vec(v, func) == [i \in 1..Len(v) |-> Apply(func, v[i])]

----------------------------------------------------------------------------
(* reverse, sort *)

RECURSIVE string_less(_, _)
\* a < b for strings: the first character that differs decides, and a
\* string comes before the strings it begins
string_less(a, b) ==
    IF b = <<>> THEN FALSE
    ELSE IF a = <<>> THEN TRUE
    ELSE IF Head(a) # Head(b) THEN Head(a) < Head(b)
    ELSE string_less(Tail(a), Tail(b))

(* The comparison of a std::sort is a record; Compare is its call.        *)

\* operator<, which std::sort(begin(), end()) uses
CompLess == [kind |-> "less"]

\* [](const std::string_view a, const std::string_view b) { return a > b; }
CompGreater == [kind |-> "greater"]

\* the lambda of sort_length: a.length() < b.length()
CompLength == [kind |-> "length"]

Compare(comp, a, b) ==
    CASE comp.kind = "less" -> string_less(a, b)
      [] comp.kind = "greater" -> string_less(b, a)
      [] comp.kind = "length" -> Len(a) < Len(b)

Comparisons == {CompLess, CompGreater, CompLength}

RECURSIVE std_sort(_, _)
\* std::sort(begin(), end(), comp): the elements in an order in which no
\* element comes before one that comp puts before it.  std::sort says
\* nothing on the order of elements neither of which comp puts before the
\* other, so every such order is a result.
std_sort(v, comp) ==
    IF v = <<>> THEN {<<>>}
    ELSE LET firsts == {i \in 1..Len(v) :
                           /\ \A j \in 1..Len(v) : ~Compare(comp, v[j], v[i])
                           /\ \A j \in 1..(i - 1) : v[j] # v[i]}
         IN  UNION {{<<v[i]>> \o w : w \in std_sort(RemoveAt(v, i - 1), comp)} :
                    i \in firsts}

----------------------------------------------------------------------------
(* split *)

\* std::string::find(delimiter, start)
string_find(s, delimiter, start) ==
    LET n == Len(delimiter)
        hits == {p \in start..(Len(s) - n) : SubStr(s, p, n) = delimiter}
    IN  IF hits = {} THEN Npos ELSE CHOOSE p \in hits : \A q \in hits : p <= q

RECURSIVE split_string_step_one(_, _, _)
\* split going on one character, not delimiterLength, after a delimiter
split_string_step_one(s, delimiter, start) ==
    LET end == string_find(s, delimiter, start)
    IN  IF end # Npos
        THEN <<SubStr(s, start, end - start)>>
             \o split_string_step_one(s, delimiter, end + 1)
        ELSE <<SubStrFrom(s, start)>>

RECURSIVE split_string(_, _, _)
\* the while loop of split over one string, from position start on, and
\* the emplace_back that follows it
split_string(s, delimiter, start) ==
    LET end == string_find(s, delimiter, start)
    IN  IF end # Npos
        THEN <<SubStr(s, start, end - start)>>
             \o split_string(s, delimiter, end + Len(delimiter))
        ELSE <<SubStrFrom(s, start)>>

RECURSIVE split_vec(_, _)
\* the for loop of split: newStrings after every string of v
split_vec(v, delimiter) ==
    IF v = <<>> THEN <<>>
    ELSE split_string(Head(v), delimiter, 0) \o split_vec(Tail(v), delimiter)

----------------------------------------------------------------------------
(* find, rfind *)

RECURSIVE find_if(_, _)
\* std::find_if over the answers func gives for the elements of a range,
\* from position i on: the first position answered TRUE, else the end
find_if(answers, i) ==
    IF i >= Len(answers) THEN Len(answers)
    ELSE IF answers[i + 1] THEN i
    ELSE find_if(answers, i + 1)

\* find(func)
find_pos(v, func) == find_if([i \in 1..Len(v) |-> Call(func, v[i])], 0)

\* rfind returning it.base() as it is, without the decrement
rfind_pos_base(v, func) ==
    LET it == find_if(Reverse([i \in 1..Len(v) |-> Call(func, v[i])]), 0)
    IN  IF it # Len(v) THEN Len(v) - it ELSE Len(v)

\* rfind(func): it is a reverse iterator, at distance it from rbegin();
\* it.base() is the iterator at distance Len(v) - it from begin()
rfind_pos(v, func) ==
    LET it == find_if(Reverse([i \in 1..Len(v) |-> Call(func, v[i])]), 0)
    IN  IF it # Len(v) THEN (Len(v) - it) - 1 ELSE Len(v)

----------------------------------------------------------------------------
(* operator==, operator!= *)

RECURSIVE std_equal(_, _, _)
\* std::equal over two ranges of one length, from position i on: FALSE at
\* the first position whose strings differ
std_equal(a, b, i) ==
    IF i >= Len(a) THEN TRUE
    ELSE IF a[i + 1] # b[i + 1] THEN FALSE
    ELSE std_equal(a, b, i + 1)

\* a comparison that looks at the strings the vectors hold, in no order
vector_equal_any_order(a, b) ==
    /\ Len(a) = Len(b)
    /\ {a[i] : i \in 1..Len(a)} = {b[i] : i \in 1..Len(b)}

\* vec == other.vec: the sizes, then std::equal
vector_equal(a, b) == Len(a) = Len(b) /\ std_equal(a, b, 0)

\* operator==(other)
operator_eq(a, b) == vector_equal(a, b)

\* operator!=(other): !(*this == other)
operator_ne(a, b) == ~operator_eq(a, b)

----------------------------------------------------------------------------
(* read_file, write_file *)

\* write_file(path, char sep): char separator[2] = {sep, '\0'} is read
\* back as a C string, so the NUL character gives the empty separator
char_separator(c) == IF c = CharNul THEN <<>> ELSE <<c>>

RECURSIVE getlines_drop_partial(_)
\* read_file losing the last line when no newline ends it
getlines_drop_partial(content) ==
    LET nl == string_find(content, <<CharNewline>>, 0)
    IN  IF nl = Npos THEN <<>>
        ELSE <<SubStr(content, 0, nl)>> \o getlines_drop_partial(SubStrFrom(content, nl + 1))

RECURSIVE getlines(_)
\* while(std::getline(input, line)) vec.push_back(line): a line ends at a
\* newline or at the end of the file; getline fails once nothing is left
getlines(content) ==
    IF content = <<>> THEN <<>>
    ELSE LET nl == string_find(content, <<CharNewline>>, 0)
         IN  IF nl = Npos THEN <<content>>
             ELSE <<SubStr(content, 0, nl)>> \o getlines(SubStrFrom(content, nl + 1))

----------------------------------------------------------------------------
(* The state after construction *)

InitWith(vecs) ==
    /\ vec \in vecs
    /\ file = <<>>
    /\ fileFrom = <<>>
    /\ os = <<>>
    /\ op = "init"
    /\ arg = <<>>
    /\ old = <<>>
    /\ ret = <<>>
    /\ outcome = "ok"

Init == InitWith(VecsOver(TextChars))

\* After undefined behaviour that crashed the process, or from which the
\* call returned with the vector or the heap damaged (outcome "corrupt":
\* the end of the vector before its begin, strings of the vector or
\* memory of the allocator overwritten), the model follows the program no
\* further.  In such a state vec is what the vector held before the call
\* or, after an erase before begin(), what it is left to read; what later
\* calls do is not defined.
Running == outcome \notin {"crash", "corrupt"}

\* a member function that ran to its end, or threw
Called(name, args, newvec, result, how) ==
    /\ Running
    /\ op' = name
    /\ arg' = args
    /\ old' = vec
    /\ vec' = newvec
    /\ ret' = result
    /\ outcome' = how
    /\ os' = <<>>

\* undefined behaviour that ends the process (a segmentation fault, or the
\* abort of a build with checked iterators)
Crashed(name, args) == Called(name, args, vec, <<>>, "crash")

----------------------------------------------------------------------------
(* The member functions *)

print(sep, keep_last_sep) ==
    /\ Running
    /\ os' = <<[sep |-> sep, keep_last_sep |-> keep_last_sep,
                text |-> print_text(vec, sep, keep_last_sep)]>>
    /\ UNCHANGED <<vec, file, fileFrom, op, arg, old, ret, outcome>>

filter_remove_func(func) ==
    /\ Called("filter_remove", [func |-> func],
              filter_remove_vec(vec, func), <<>>, "ok")
    /\ UNCHANGED <<file, fileFrom>>

filter_keep_func(func) ==
    /\ Called("filter_keep", [func |-> func],
              filter_keep_vec(vec, func), <<>>, "ok")
    /\ UNCHANGED <<file, fileFrom>>

\* a std::regex that takes every pattern, a malformed one as the empty one
std_regex_takes_all(regex) == FALSE

\* std::regex reg{regex}: the constructor throws std::regex_error on a
\* malformed pattern
std_regex_throws(regex) == ~regex.valid

\* filter_remove(regex): std::regex reg{regex} throws on a malformed one
filter_remove_regex(regex) ==
    /\ IF std_regex_throws(regex)
       THEN Called("filter_remove_regex", [regex |-> regex], vec, <<>>, "regex_error")
       ELSE Called("filter_remove_regex", [regex |-> regex],
                   filter_remove_vec(vec, FuncRegex(regex)), <<>>, "ok")
    /\ UNCHANGED <<file, fileFrom>>

filter_keep_regex(regex) ==
    /\ IF std_regex_throws(regex)
       THEN Called("filter_keep_regex", [regex |-> regex], vec, <<>>, "regex_error")
       ELSE Called("filter_keep_regex", [regex |-> regex],
                   filter_keep_vec(vec, FuncRegex(regex)), <<>>, "ok")
    /\ UNCHANGED <<file, fileFrom>>

filter_empty(keep_whitespace) ==
    /\ Called("filter_empty", [keep_whitespace |-> keep_whitespace],
              filter_empty_vec(vec, keep_whitespace), <<>>, "ok")
    /\ UNCHANGED <<file, fileFrom>>

trim ==
    /\ Called("trim", <<>>, transform_trim(vec), <<>>, "ok")
    /\ UNCHANGED <<file, fileFrom>>

\* split(delimiter), for a delimiter that is not empty
split(delimiter) ==
    /\ delimiter # <<>>
    /\ Called("split", [delimiter |-> delimiter], split_vec(vec, delimiter), <<>>, "ok")
    /\ UNCHANGED <<file, fileFrom>>

(* split(delimiter), one pass of its loops at a time, for every delimiter. *)
(* While the call runs, outcome is "running" and ret holds its locals: i,   *)
(* the place in the for loop (the strings before vec[i + 1] are done),     *)
(* start, and newStrings.  Of newStrings the model keeps the first         *)
(* MaxEmplaced strings and, in beyond, whether the number of the strings   *)
(* emplaced after them is odd.  Memory is not endless: once newStrings is  *)
(* that long, emplace_back may throw std::bad_alloc, which ends the call   *)
(* and leaves vec as it was.                                               *)
Emplaced(newStrings, str) ==
    IF Len(newStrings) < MaxEmplaced THEN Append(newStrings, str) ELSE newStrings

\* beyond, after an emplace_back on newStrings
EmplacedBeyond(newStrings, beyond) ==
    IF Len(newStrings) < MaxEmplaced THEN beyond ELSE 1 - beyond

\* the call, up to the first test of the for loop
split_call(delimiter) ==
    /\ outcome # "running"
    /\ Called("split", [delimiter |-> delimiter], vec,
              [i |-> 0, start |-> 0, newStrings |-> <<>>, beyond |-> 0], "running")
    /\ UNCHANGED <<file, fileFrom>>

\* one test of the while condition and what follows it: the body of the
\* while loop, or the emplace_back after it and the step of the for loop
split_iteration ==
    /\ outcome = "running"
    /\ ret.i < Len(vec)
    /\ LET s == vec[ret.i + 1]
           delimiter == arg.delimiter
           end == string_find(s, delimiter, ret.start)
       IN  ret' = IF end # Npos
                  THEN [i |-> ret.i,
                        start |-> end + Len(delimiter),
                        newStrings |-> Emplaced(ret.newStrings,
                                                SubStr(s, ret.start, end - ret.start)),
                        beyond |-> EmplacedBeyond(ret.newStrings, ret.beyond)]
                  ELSE [i |-> ret.i + 1,
                        start |-> 0,
                        newStrings |-> Emplaced(ret.newStrings, SubStrFrom(s, ret.start)),
                        beyond |-> EmplacedBeyond(ret.newStrings, ret.beyond)]
    /\ UNCHANGED <<vec, file, fileFrom, os, op, arg, old, outcome>>

\* the for loop is over: vec = std::move(newStrings)
split_return ==
    /\ outcome = "running"
    /\ ret.i = Len(vec)
    /\ vec' = ret.newStrings
    /\ ret' = <<>>
    /\ outcome' = "ok"
    /\ UNCHANGED <<file, fileFrom, os, op, arg, old>>

\* emplace_back finds no memory for one more string
split_bad_alloc ==
    /\ outcome = "running"
    /\ ret.i < Len(vec)
    /\ Len(ret.newStrings) = MaxEmplaced
    /\ ret' = <<>>
    /\ outcome' = "bad_alloc"
    /\ UNCHANGED <<vec, file, fileFrom, os, op, arg, old>>

\* an erase at end() of an empty vector, by a build with unchecked
\* iterators: the end of the vector goes one place down, before its begin,
\* and the string there, which is none of the vector, is destroyed.  The
\* call returns with the vector in no valid state (outcome "corrupt"), as
\* it does when the vector has storage left from the elements it had, or
\* the process ends, as it does when the vector never had storage.
ErasedAtEndOfEmpty(name) ==
    \/ Called(name, <<>>, vec, <<>>, "corrupt")
    \/ Crashed(name, <<>>)

\* remove_first(): vec.erase(begin()).  On an empty vector begin() is end()
\* and the erase is undefined behaviour.
remove_first ==
    /\ IF vec # <<>>
       THEN Called("remove_first", <<>>, Tail(vec), <<>>, "ok")
       ELSE ErasedAtEndOfEmpty("remove_first")
    /\ UNCHANGED <<file, fileFrom>>

\* remove_last(): vec.erase(end()).  end() is never the position of an
\* element, so the erase is undefined behaviour: a build with unchecked
\* iterators moves the elements after end() (none) one place down and
\* drops the last element; a build with checked iterators aborts.
remove_last ==
    /\ \/ /\ vec # <<>>
          /\ Called("remove_last", <<>>, Front(vec), <<>>, "ok")
       \/ /\ vec # <<>>
          /\ Crashed("remove_last", <<>>)
       \/ /\ vec = <<>>
          /\ ErasedAtEndOfEmpty("remove_last")
    /\ UNCHANGED <<file, fileFrom>>

(* remove_nth(pos) computes the iterator begin() + pos before it compares  *)
(* it with end().  A pos is [turns, index], the std::size_t value          *)
(* turns * W + index, where W strings fill the address space               *)
(* (W * sizeof(std::string) = 2^64), so that the address of begin() + pos  *)
(* is that of begin() + index.  The index is the distance, in strings,     *)
(* from begin() to that address, and is below 0 for an address before      *)
(* begin(): SIZE_MAX - 1 is the pos of 32 turns and index -2.  For         *)
(* pos > size() the iterator is outside the vector and the addition is     *)
(* undefined behaviour: a build with unchecked iterators goes on with the  *)
(* address it computed, a build with checked iterators aborts.             *)
PosValue(turns, index) == [turns |-> turns, index |-> index]

\* pos < n and pos > n, for a size n below W
PosBelow(pos, n) == pos.turns = 0 /\ pos.index < n
PosAbove(pos, n) == pos.turns > 0 \/ pos.index > n

\* vec.erase(begin() + pos) at an address before begin(), by a build with
\* unchecked iterators: the strings from that address on, those before
\* begin() and those of the vector, move one place down, and the last
\* place is destroyed.  The vector reads as its elements after the first,
\* and memory before its storage is overwritten.  An empty vector is left
\* with its end before its begin.
ErasedBeforeBegin(v) == IF v = <<>> THEN <<>> ELSE Tail(v)

remove_nth(pos) ==
    /\ \/ /\ pos.index >= Len(vec)         \* begin() + pos >= end(): return
          /\ Called("remove_nth", [pos |-> pos], vec, <<>>, "ok")
       \/ /\ pos.index >= 0                 \* vec.erase(begin() + pos)
          /\ pos.index < Len(vec)
          /\ Called("remove_nth", [pos |-> pos], RemoveAt(vec, pos.index), <<>>, "ok")
       \/ /\ pos.index < 0                  \* a vector without storage:
          /\ vec = <<>>                     \* begin() is null, and the
                                            \* address wraps to above end()
          /\ Called("remove_nth", [pos |-> pos], vec, <<>>, "ok")
       \/ /\ pos.index < 0                  \* an address before begin() is
                                            \* below end(): the erase
          /\ Called("remove_nth", [pos |-> pos], ErasedBeforeBegin(vec), <<>>, "corrupt")
       \/ /\ PosAbove(pos, Len(vec))
          /\ Crashed("remove_nth", [pos |-> pos])
    /\ UNCHANGED <<file, fileFrom>>

\* operator[](index), const or not: vec[index], which checks nothing.
\* Past the last element it is undefined behaviour: the call returns a
\* reference to whatever follows the storage, or the process ends.
subscript(index, const) ==
    /\ \/ /\ index < Len(vec)
          /\ Called("subscript", [index |-> index, const |-> const], vec, vec[index + 1], "ok")
       \/ /\ index >= Len(vec)
          /\ Called("subscript", [index |-> index, const |-> const], vec, <<>>, "garbage")
       \/ /\ index >= Len(vec)
          /\ Crashed("subscript", [index |-> index, const |-> const])
    /\ UNCHANGED <<file, fileFrom>>

find_func(func) ==
    /\ Called("find", [func |-> func], vec, find_pos(vec, func), "ok")
    /\ UNCHANGED <<file, fileFrom>>

rfind_func(func) ==
    /\ Called("rfind", [func |-> func], vec, rfind_pos(vec, func), "ok")
    /\ UNCHANGED <<file, fileFrom>>

\* find(s): find([s](const std::string_view x){return x == s;})
find_string(str) ==
    /\ Called("find_string", [s |-> str], vec, find_pos(vec, FuncEquals(str)), "ok")
    /\ UNCHANGED <<file, fileFrom>>

rfind_string(str) ==
    /\ Called("rfind_string", [s |-> str], vec, rfind_pos(vec, FuncEquals(str)), "ok")
    /\ UNCHANGED <<file, fileFrom>>

find_reg(regex) ==
    /\ IF std_regex_throws(regex)
       THEN Called("find_reg", [regex |-> regex], vec, <<>>, "regex_error")
       ELSE Called("find_reg", [regex |-> regex], vec,
                   find_pos(vec, FuncRegex(regex)), "ok")
    /\ UNCHANGED <<file, fileFrom>>

rfind_reg(regex) ==
    /\ IF std_regex_throws(regex)
       THEN Called("rfind_reg", [regex |-> regex], vec, <<>>, "regex_error")
       ELSE Called("rfind_reg", [regex |-> regex], vec,
                   rfind_pos(vec, FuncRegex(regex)), "ok")
    /\ UNCHANGED <<file, fileFrom>>

\* *this == other; other may be *this
equal(other) ==
    /\ Called("operator==", [other |-> other], vec, operator_eq(vec, other), "ok")
    /\ UNCHANGED <<file, fileFrom>>

\* *this != other
not_equal(other) ==
    /\ Called("operator!=", [other |-> other], vec, operator_ne(vec, other), "ok")
    /\ UNCHANGED <<file, fileFrom>>

\* transform(func) with a function of the caller's.  (The model calls no
\* function that takes the vector out of the bounds.)
transform(func) ==
    /\ InBounds(transform_vec(vec, func))
    /\ Called("transform", [func |-> func], transform_vec(vec, func), <<>>, "ok")
    /\ UNCHANGED <<file, fileFrom>>

\* reverse(): std::reverse(begin(), end())
reverse ==
    /\ Called("reverse", <<>>, Reverse(vec), <<>>, "ok")
    /\ UNCHANGED <<file, fileFrom>>

\* sort(func): std::sort(begin(), end(), func)
sort(func) ==
    /\ \E sorted \in std_sort(vec, func) :
          Called("sort", [func |-> func], sorted, <<>>, "ok")
    /\ UNCHANGED <<file, fileFrom>>

\* sort_alphabetically(): std::sort(begin(), end())
sort_alphabetically ==
    /\ \E sorted \in std_sort(vec, CompLess) :
          Called("sort_alphabetically", <<>>, sorted, <<>>, "ok")
    /\ UNCHANGED <<file, fileFrom>>

\* sort_length(): std::sort with the lambda that compares the lengths
sort_length ==
    /\ \E sorted \in std_sort(vec, CompLength) :
          Called("sort_length", <<>>, sorted, <<>>, "ok")
    /\ UNCHANGED <<file, fileFrom>>

(* Writes of the caller through the references the class hands out: get() *)
(* returns vec itself, begin() an iterator into it, operator[] one of its  *)
(* strings.  (The model writes nothing that takes the vector out of the    *)
(* bounds.)                                                                *)

\* get().push_back(str)
get_push_back(str) ==
    /\ InBounds(Append(vec, str))
    /\ Called("get_push_back", [s |-> str], Append(vec, str), <<>>, "ok")
    /\ UNCHANGED <<file, fileFrom>>

\* (*this)[index] = str.  Past the last element the std::string assigned
\* to is whatever lies after the elements, none of the vector: undefined
\* behaviour.  The process ends, or the call returns after a write into
\* memory that is not the string's: the vector may read differently, and
\* later calls may die in the allocator (outcome "corrupt").
subscript_assign(index, str) ==
    /\ \/ /\ index < Len(vec)
          /\ InBounds([vec EXCEPT ![index + 1] = str])
          /\ Called("subscript_assign", [index |-> index, s |-> str],
                    [vec EXCEPT ![index + 1] = str], <<>>, "ok")
       \/ /\ index >= Len(vec)
          /\ Called("subscript_assign", [index |-> index, s |-> str], vec, <<>>, "corrupt")
       \/ /\ index >= Len(vec)
          /\ Crashed("subscript_assign", [index |-> index, s |-> str])
    /\ UNCHANGED <<file, fileFrom>>

\* *begin() = str.  On an empty vector begin() is end(): undefined
\* behaviour, as above.
begin_assign(str) ==
    /\ \/ /\ vec # <<>>
          /\ InBounds([vec EXCEPT ![1] = str])
          /\ Called("begin_assign", [s |-> str], [vec EXCEPT ![1] = str], <<>>, "ok")
       \/ /\ vec = <<>>
          /\ Called("begin_assign", [s |-> str], vec, <<>>, "corrupt")
       \/ /\ vec = <<>>
          /\ Crashed("begin_assign", [s |-> str])
    /\ UNCHANGED <<file, fileFrom>>

\* stringvec(): a new, empty vector takes the place of the old one
construct ==
    /\ Called("stringvec", <<>>, <<>>, <<>>, "ok")
    /\ UNCHANGED <<file, fileFrom>>

\* read_file(path): throws when the file cannot be opened, else pushes the
\* lines of the file after the elements the vector has.  (The model reads
\* no file that takes the vector out of the bounds.)
read_file ==
    /\ IF file = <<>>
       THEN Called("read_file", <<>>, vec, <<>>, "runtime_error")
       ELSE /\ InBounds(vec \o getlines(file[1]))
            /\ Called("read_file", <<>>, vec \o getlines(file[1]), <<>>, "ok")
    /\ UNCHANGED <<file, fileFrom>>

\* write_file(path, sep): print(output, sep, false) into the file, which
\* is created or truncated; throws when the path cannot be opened
write_file(sep, openable) ==
    IF ~openable
    THEN /\ Called("write_file", [sep |-> sep], vec, <<>>, "runtime_error")
         /\ UNCHANGED <<file, fileFrom>>
    ELSE /\ Called("write_file", [sep |-> sep], vec, <<>>, "ok")
         /\ file' = <<print_text(vec, sep, FALSE)>>
         /\ fileFrom' = IF sep = <<CharNewline>> THEN <<vec>> ELSE <<>>

\* write_file(path, char sep = '\n')
write_file_char(sep, openable) == write_file(char_separator(sep), openable)

----------------------------------------------------------------------------
(* The specifications *)

\* the positions and indices tried: inside, at the end, past the end
Indices == 0..(MaxLen + 1)

\* the values of pos tried: those of no turn, and those of one turn, whose
\* address is that of an index or lies one or two strings before begin()
Positions ==
    {PosValue(turns, index) : turns \in {0}, index \in Indices}
        \cup {PosValue(turns, index) : turns \in {1}, index \in (-2..-1) \cup Indices}

Next ==
    \/ \E func \in Funcs : filter_remove_func(func)
    \/ \E func \in Funcs : filter_keep_func(func)
    \/ \E regex \in Regexes : filter_remove_regex(regex)
    \/ \E regex \in Regexes : filter_keep_regex(regex)
    \/ \E keep_whitespace \in BOOLEAN : filter_empty(keep_whitespace)
    \/ remove_first
    \/ remove_last
    \/ \E pos \in Positions : remove_nth(pos)
    \/ trim
    \/ \E delimiter \in Delims : split(delimiter)
    \/ \E func \in Funcs : find_func(func)
    \/ \E func \in Funcs : rfind_func(func)
    \/ \E str \in StringsUpTo(TextChars, 1) : find_string(str)
    \/ \E str \in StringsUpTo(TextChars, 1) : rfind_string(str)
    \/ \E regex \in Regexes : find_reg(regex)
    \/ \E regex \in Regexes : rfind_reg(regex)
    \/ \E index \in Indices, const \in BOOLEAN : subscript(index, const)
    \/ \E func \in Transforms : transform(func)
    \/ reverse
    \/ \E func \in Comparisons : sort(func)
    \/ sort_alphabetically
    \/ sort_length
    \/ \E str \in StringsUpTo(TextChars, 1) : get_push_back(str)
    \/ \E index \in Indices, str \in StringsUpTo(TextChars, 1) : subscript_assign(index, str)
    \/ \E str \in StringsUpTo(TextChars, 1) : begin_assign(str)

Spec == Init /\ [][Next]_vars

\* split and print on one-element vectors of longer strings
InitSplit == InitWith({<<s>> : s \in StringsUpTo(TextChars, MaxStrLen)})

NextSplit ==
    \/ \E delimiter \in Delims : split(delimiter)
    \/ \E sep \in Delims, keep_last_sep \in BOOLEAN : print(sep, keep_last_sep)

SpecSplit == InitSplit /\ [][NextSplit]_vars

\* file input and output; the strings may hold newlines
InitFile == InitWith(VecsOver(FileChars))

NextFile ==
    \/ \E sep \in {<<CharNewline>>, <<CharSpace>>}, openable \in BOOLEAN :
          write_file(sep, openable)
    \/ \E sep \in {CharNewline, CharNul}, openable \in BOOLEAN :
          write_file_char(sep, openable)
    \/ read_file
    \/ construct
    \/ \E keep_last_sep \in BOOLEAN : print(<<CharNewline>>, keep_last_sep)

SpecFile == InitFile /\ [][NextFile]_vars
\* comparisons of the vector, as constructed and after calls that take
\* elements or characters away, with itself and with the vectors of up to
\* two elements and two characters
Others == UNION {VecsOfLen(TextChars, n, 2) : n \in 0..2}

NextCompare ==
    \/ \E other \in Others \cup {vec} : equal(other)
    \/ \E other \in Others \cup {vec} : not_equal(other)
    \/ remove_first
    \/ trim

SpecCompare == Init /\ [][NextCompare]_vars
\* split, one pass of its loops at a time.  A loop that can go on does go
\* on, and a call that can return does return; when memory runs out is
\* left open.
NextSplitCall ==
    \/ \E delimiter \in Delims \cup {<<>>} : split_call(delimiter)
    \/ split_iteration
    \/ split_return
    \/ split_bad_alloc

SpecSplitCall ==
    /\ Init
    /\ [][NextSplitCall]_vars
    /\ WF_vars(split_iteration)
    /\ WF_vars(split_return)

----------------------------------------------------------------------------
(* The vocabulary of the claims *)

\* the whitespace of the specification: space, tab, vertical tab, carriage
\* return, newline
SpecWhitespace == {32, 9, 11, 13, 10}

RECURSIVE StripLeading(_)
\* s without its longest leading run of whitespace
StripLeading(s) ==
    IF s # <<>> /\ Head(s) \in SpecWhitespace THEN StripLeading(Tail(s)) ELSE s

RECURSIVE StripTrailing(_)
\* s without its longest trailing run of whitespace
StripTrailing(s) ==
    IF s # <<>> /\ Last(s) \in SpecWhitespace THEN StripTrailing(Front(s)) ELSE s

OnlyWhitespace(s) == \A i \in 1..Len(s) : s[i] \in SpecWhitespace

NoNewline(v) == \A i \in 1..Len(v) : \A j \in 1..Len(v[i]) : v[i][j] # CharNewline

\* the elements of v with sep between them
RECURSIVE Joined(_, _)
Joined(v, sep) ==
    IF v = <<>> THEN <<>>
    ELSE IF Len(v) = 1 THEN v[1]
    ELSE Joined(Front(v), sep) \o sep \o Last(v)

\* the elements of v with sep after each of them
RECURSIVE Terminated(_, _)
Terminated(v, sep) ==
    IF v = <<>> THEN <<>> ELSE Terminated(Front(v), sep) \o Last(v) \o sep

\* the string t is one the atom a stands for
AtomAccepts(a, t) ==
    /\ \A i \in 1..Len(t) : t[i] \in a.cls
    /\ CASE a.rep = "one" -> Len(t) = 1
         [] a.rep = "star" -> TRUE
         [] a.rep = "plus" -> Len(t) >= 1

RECURSIVE Denotes(_, _)
\* the whole of s is in the language of the atoms
Denotes(s, atoms) ==
    IF atoms = <<>> THEN s = <<>>
    ELSE \E k \in 0..Len(s) :
            /\ AtomAccepts(Head(atoms), SubSeq(s, 1, k))
            /\ Denotes(SubSeq(s, k + 1, Len(s)), Tail(atoms))

\* d occurs in s
Occurs(d, s) == \E p \in 0..(Len(s) - Len(d)) : SubSeq(s, p + 1, p + Len(d)) = d

\* the 0-based positions of v whose element func accepts
Satisfying(v, func) == {i \in 0..(Len(v) - 1) : Call(func, v[i + 1])}

\* the 0-based positions of v that hold the string str
Holding(v, str) == {i \in 0..(Len(v) - 1) : v[i + 1] = str}

\* pos is the least / the greatest of the positions, or n when there is none
IsLowestOr(pos, positions, n) ==
    IF positions = {} THEN pos = n
    ELSE pos \in positions /\ \A j \in positions : pos <= j

IsHighestOr(pos, positions, n) ==
    IF positions = {} THEN pos = n
    ELSE pos \in positions /\ \A j \in positions : pos >= j

----------------------------------------------------------------------------
(* The claims *)

\* C1: remove_last() on a non-empty collection of n elements leaves the
\* first n-1 elements of the original in their order.  (The code erases
\* end(): the statement fails where that undefined behaviour ends the
\* process.)
C1_RemoveLastLeavesFront ==
    (op = "remove_last" /\ old # <<>>) =>
        /\ outcome = "ok"
        /\ Len(vec) = Len(old) - 1
        /\ vec = SubSeq(old, 1, Len(old) - 1)

\* C2: after trim() the collection has the length it had and every element
\* is the original one without its longest leading and its longest
\* trailing run of whitespace, whatever the length of what is left.  (The
\* code empties an element whose trimmed content is one character.)
C2_TrimStripsOuterWhitespace ==
    op = "trim" =>
        /\ Len(vec) = Len(old)
        /\ \A i \in 1..Len(old) : vec[i] = StripTrailing(StripLeading(old[i]))

\* C3: filter_empty(true) leaves the non-empty elements in their order;
\* filter_empty(false) leaves the elements that are neither empty nor made
\* of whitespace alone.  (The code keeps the empty strings when the flag
\* is false.)
C3_FilterEmptyRemovesEmpty ==
    op = "filter_empty" =>
        vec = SelectSeq(old, LAMBDA s :
                  IF arg.keep_whitespace THEN s # <<>>
                  ELSE s # <<>> /\ ~OnlyWhitespace(s))

\* a file written by write_file with the newline separator was read by
\* read_file into an empty collection
RoundTripDone ==
    /\ op = "read_file"
    /\ outcome = "ok"
    /\ old = <<>>
    /\ fileFrom # <<>>

\* C4 as stated: for every collection C without a newline in its elements,
\* write_file then read_file into an empty collection gives C back.
C4_RoundTripAnyElements ==
    (RoundTripDone /\ NoNewline(fileFrom[1])) => vec = fileFrom[1]

\* C4 as amended: for every collection C without a newline in its elements
\* whose last element, if there is one, is not the empty string,
\* write_file then read_file into an empty collection gives C back.
C4_RoundTripLastNotEmpty ==
    (/\ RoundTripDone
     /\ NoNewline(fileFrom[1])
     /\ (fileFrom[1] = <<>> \/ Last(fileFrom[1]) # <<>>)) => vec = fileFrom[1]

\* a collection with empty strings before a last element that is not
\* empty went through the file and came back
C4_Witness ==
    /\ RoundTripDone
    /\ NoNewline(fileFrom[1])
    /\ Len(fileFrom[1]) = 3
    /\ fileFrom[1][1] = <<>>
    /\ fileFrom[1][2] = <<>>
    /\ fileFrom[1][3] # <<>>
    /\ vec = fileFrom[1]

\* C5: operator[] with index < length returns the element at the index,
\* and with index >= length ends in an out-of-bounds error, for the const
\* and the non-const overload.  (The code checks nothing.)
C5_SubscriptOutOfRangeIsError ==
    op = "subscript" =>
        IF arg.index < Len(old)
        THEN outcome = "ok" /\ ret = old[arg.index + 1]
        ELSE outcome = "out_of_range"

\* C6: remove_nth(pos) removes the element at pos and keeps the others in
\* their order when pos < length, and returns without an error and without
\* a change when pos >= length.  (The code compares begin() + pos with
\* end(), which is no test of pos >= length for every pos.)
C6_RemoveNthToleratesEveryPos ==
    op = "remove_nth" =>
        /\ outcome = "ok"
        /\ vec = IF PosBelow(arg.pos, Len(old))
                 THEN SubSeq(old, 1, arg.pos.index) \o SubSeq(old, arg.pos.index + 2, Len(old))
                 ELSE old

\* C7: filter_remove(pattern) removes the elements the pattern matches as a
\* whole and filter_keep(pattern) keeps them, the others keeping their
\* order; for a pattern without operators these are the elements equal to
\* it, not those that hold it.
C7_PatternFiltersMatchWholeElement ==
    /\ (op = "filter_remove_regex" /\ outcome = "ok") =>
          /\ vec = SelectSeq(old, LAMBDA s : ~Denotes(s, arg.regex.atoms))
          /\ \A lit \in StringsUpTo(TextChars, 2) :
                arg.regex = RegexLiteral(lit) => vec = SelectSeq(old, LAMBDA s : s # lit)
    /\ (op = "filter_keep_regex" /\ outcome = "ok") =>
          /\ vec = SelectSeq(old, LAMBDA s : Denotes(s, arg.regex.atoms))
          /\ \A lit \in StringsUpTo(TextChars, 2) :
                arg.regex = RegexLiteral(lit) => vec = SelectSeq(old, LAMBDA s : s = lit)

\* filter_remove("a") met the element "a" and an element " a" that only
\* holds an a, removed the first and kept the second
C7_Witness ==
    /\ op = "filter_remove_regex"
    /\ outcome = "ok"
    /\ arg.regex = RegexLiteral(<<CharA>>)
    /\ \E i, j \in 1..Len(old) : old[i] = <<CharA>> /\ old[j] = <<CharSpace, CharA>>
    /\ \E i \in 1..Len(vec) : vec[i] = <<CharSpace, CharA>>
    /\ \A i \in 1..Len(vec) : vec[i] # <<CharA>>

\* C8: write_file writes the elements in order with the separator between
\* them and none after the last (n-1 separators, nothing for n = 0);
\* print with keep_last_sep = true writes a separator after every element
\* (n separators).
C8_SeparatorsWritten ==
    /\ (op = "write_file" /\ outcome = "ok") =>
          /\ file = <<Joined(vec, arg.sep)>>
          /\ Len(file[1]) = TotalChars(vec)
                            + (IF vec = <<>> THEN 0 ELSE (Len(vec) - 1) * Len(arg.sep))
    /\ (os # <<>> /\ os[1].keep_last_sep) =>
          /\ os[1].text = Terminated(vec, os[1].sep)
          /\ Len(os[1].text) = TotalChars(vec) + Len(vec) * Len(os[1].sep)

\* three elements were written to the file with newlines between them and
\* then printed with a newline after each
C8_Witness ==
    /\ op = "write_file"
    /\ outcome = "ok"
    /\ arg.sep = <<CharNewline>>
    /\ Len(vec) = 3
    /\ os # <<>>
    /\ os[1].keep_last_sep
    /\ os[1].sep = <<CharNewline>>
    /\ Len(os[1].text) = Len(file[1]) + 1

\* C9: for a collection of one string s and a delimiter d that is not
\* empty, split(d) and then print with sep = d and keep_last_sep = false
\* writes s; a string without d is left as it is, and the string d gives
\* two empty strings.
C9_SplitThenJoinGivesString ==
    (op = "split" /\ Len(old) = 1) =>
        /\ (os # <<>> /\ os[1].sep = arg.delimiter /\ ~os[1].keep_last_sep) =>
              os[1].text = old[1]
        /\ ~Occurs(arg.delimiter, old[1]) => vec = old
        /\ old[1] = arg.delimiter => vec = << <<>>, <<>> >>

\* "a  a" was split on " " into "a", "", "a" and joined again
C9_Witness ==
    /\ op = "split"
    /\ old = << <<CharA, CharSpace, CharSpace, CharA>> >>
    /\ arg.delimiter = <<CharSpace>>
    /\ vec = << <<CharA>>, <<>>, <<CharA>> >>
    /\ os # <<>>
    /\ os[1].sep = <<CharSpace>>
    /\ ~os[1].keep_last_sep
    /\ os[1].text = old[1]

\* C10: rfind returns the highest position whose element satisfies the
\* predicate and find the lowest, both as positions counted from begin(),
\* and both return end() when no element satisfies it; when one element
\* only satisfies it they return the same position.
C10_FindLowestRfindHighest ==
    /\ op = "find" => IsLowestOr(ret, Satisfying(vec, arg.func), Len(vec))
    /\ op = "rfind" => IsHighestOr(ret, Satisfying(vec, arg.func), Len(vec))
    /\ op = "find_string" => IsLowestOr(ret, Holding(vec, arg.s), Len(vec))
    /\ op = "rfind_string" => IsHighestOr(ret, Holding(vec, arg.s), Len(vec))
    /\ \A func \in Funcs \cup {FuncEquals(str) : str \in StringsUpTo(TextChars, 1)} :
          Cardinality(Satisfying(vec, func)) = 1 =>
              /\ find_pos(vec, func) = rfind_pos(vec, func)
              /\ find_pos(vec, func) \in Satisfying(vec, func)

\* rfind met two elements that satisfy the predicate and one after them
\* that does not, and returned the position of the second
C10_Witness ==
    /\ op = "rfind"
    /\ Len(vec) = 3
    /\ Satisfying(vec, arg.func) = {0, 1}
    /\ ret = 1

----------------------------------------------------------------------------
\* the same length and, at every index, the same element
SameElements(a, b) == Len(a) = Len(b) /\ \A i \in 1..Len(a) : a[i] = b[i]

\* C11: A == B holds exactly when A and B have the same length and equal
\* elements at every index, in order; A != B is the negation of A == B;
\* A == A holds.  Collections that differ in length only, or in one
\* element, compare unequal.
C11_EqualityIsStructural ==
    /\ op = "operator==" =>
          /\ ret = SameElements(vec, arg.other)
          /\ (arg.other = vec => ret)
          /\ vec = old
    /\ op = "operator!=" =>
          /\ ret = ~SameElements(vec, arg.other)
          /\ (arg.other = vec => ~ret)
          /\ vec = old

\* a comparison of two collections of one length, two elements or more,
\* that differ at one index only, came out unequal
C11_Witness ==
    /\ op = "operator=="
    /\ Len(vec) >= 2
    /\ Len(arg.other) = Len(vec)
    /\ Cardinality({i \in 1..Len(vec) : vec[i] # arg.other[i]}) = 1
    /\ ret = FALSE

----------------------------------------------------------------------------
\* C12: split(delimiter) terminates for every collection and every
\* delimiter, the empty delimiter included: a call of split that has begun
\* comes to its end.
C12_SplitTerminates ==
    (op = "split" /\ outcome = "running") ~> (outcome # "running")

----------------------------------------------------------------------------
\* C13: remove_first() and remove_last() on an empty collection are safe
\* no-ops, whatever calls emptied it: the call returns normally, nothing at
\* the end position is erased, and the collection is empty afterwards.
C13_RemoveOnEmptyIsNoOp ==
    (op \in {"remove_first", "remove_last"} /\ old = <<>>) =>
        (outcome = "ok" /\ vec = <<>>)

----------------------------------------------------------------------------
\* the operations that take a pattern
PatternOps == {"filter_remove_regex", "filter_keep_regex", "find_reg", "rfind_reg"}

\* C14: filter_remove(pattern), filter_keep(pattern), find_reg and
\* rfind_reg, given a malformed pattern, end in a pattern error before any
\* element is examined or removed: no position is returned and the
\* collection is what it was before the call.
C14_MalformedPatternIsError ==
    (op \in PatternOps /\ ~arg.regex.valid) =>
        /\ outcome = "regex_error"
        /\ ret = <<>>
        /\ vec = old

\* filter_remove with a malformed pattern was called on a collection that
\* holds an empty string and another string, and ended in the error
C14_Witness ==
    /\ op = "filter_remove_regex"
    /\ ~arg.regex.valid
    /\ outcome = "regex_error"
    /\ \E i, j \in 1..Len(old) : old[i] = <<>> /\ old[j] # <<>>

----------------------------------------------------------------------------
\* C15: trim() is idempotent: a trim() called right after a trim() leaves
\* the collection as the first call left it.
C15_TrimIsIdempotent ==
    [][(op = "trim" /\ outcome = "ok" /\ op' = "trim") => vec' = vec]_vars

\* trim was called on a collection as a trim leaves it (the call changed
\* nothing), with an element that has whitespace between two characters
\* and an element that is empty
C15_Witness ==
    /\ op = "trim"
    /\ outcome = "ok"
    /\ old = vec
    /\ \E i \in 1..Len(vec) : \E j \in 2..(Len(vec[i]) - 1) : vec[i][j] \in SpecWhitespace
    /\ \E k \in 1..Len(vec) : vec[k] = <<>>
====
